---- MODULE Spec2Model ----
(***************************************************************************)
(* State-machine model of backend/app.py: a Flask service with two routes  *)
(* (POST /generate, GET /history), a request-scoped SQLite connection kept *)
(* on flask.g, and a module-level init_db().                               *)
(*                                                                         *)
(* Text is modelled as a sequence of Unicode code points so that           *)
(* str.strip() and int() are computed, not assumed.                        *)
(***************************************************************************)
EXTENDS Integers, Sequences, FiniteSets, TLC

VARIABLES
    tableExists,  \* the conversations table exists in conversations.db
    store,        \* its committed rows, in insertion order
    clock,        \* the wall clock CURRENT_TIMESTAMP reads
    writer,       \* the connection holding the database's write lock
    pending,      \* the row inserted but not yet committed by the writer
    lockLevel,    \* the writer's lock: unlocked, reserved or pending
    conns,        \* the open request connections, each with its opener
    g,            \* flask.g._db of each application context
    req,          \* the request each worker is handling and where it is
    phase         \* where the service process is: boot, booted, serving, crashed

vars == <<tableExists, store, clock, writer, pending, lockLevel, conns, g,
          req, phase>>

(* ------------------------------ bounds -------------------------------- *)
NumSlots   == 2   \* requests the server handles at the same time
MaxRecords == 3   \* rows the table can hold
MaxClock   == 1   \* latest CURRENT_TIMESTAMP value (seconds)

Slots == 1..NumSlots
NoConn == 0

(* ------------------------------ text ---------------------------------- *)
\* A character is its Unicode code point.
\* The characters str.strip() removes: those for which str.isspace() holds.
WS == (9..13) \cup (28..32) \cup {133, 160, 5760} \cup (8192..8202)
      \cup {8232, 8233, 8239, 8287, 12288}

\* The characters int() ignores around a numeral: the same, except the four
\* ASCII separators U+001C..U+001F.
IntWS == WS \ (28..31)

\* The code points of the digit zero of every Unicode decimal script
\* (category Nd); the nine code points after each are its digits 1 to 9.
DecimalZeros ==
    { 48, 1632, 1776, 1984, 2406, 2534, 2662, 2790, 2918, 3046, 3174, 3302,
      3430, 3558, 3664, 3792, 3872, 4160, 4240, 6112, 6160, 6470, 6608, 6784,
      6800, 6992, 7088, 7232, 7248, 42528, 43216, 43264, 43472, 43504, 43600,
      44016, 65296, 66720, 68912, 69734, 69872, 69942, 70096, 70384, 70736,
      70864, 71248, 71360, 71472, 71904, 72016, 72784, 73040, 73120, 92768,
      92864, 93008, 120782, 120792, 120802, 120812, 120822, 123200, 123632,
      125264, 130032 }

Digits == UNION { z..(z + 9) : z \in DecimalZeros }

DigitVal(c) == c - (CHOOSE z \in DecimalZeros : z <= c /\ c <= z + 9)

Underscore == 95
PlusSign   == 43
MinusSign  == 45

\* s without its longest prefix of characters of W.
LStrip(s, W) ==
    IF \A i \in 1..Len(s) : s[i] \in W THEN <<>>
    ELSE LET first == CHOOSE i \in 1..Len(s) :
                          s[i] \notin W /\ \A j \in 1..(i - 1) : s[j] \in W
         IN  SubSeq(s, first, Len(s))

\* s without its longest suffix of characters of W.
RStrip(s, W) ==
    IF \A i \in 1..Len(s) : s[i] \in W THEN <<>>
    ELSE LET last == CHOOSE i \in 1..Len(s) :
                         s[i] \notin W /\ \A j \in (i + 1)..Len(s) : s[j] \in W
         IN  SubSeq(s, 1, last)

lstrip(s) == LStrip(s, WS)
rstrip(s) == RStrip(s, WS)

\* Variant of str.strip() that forgets the trailing side.
strip_leading_only(s) == lstrip(s)

\* str.strip(): drop leading and trailing whitespace.
strip(s) == rstrip(lstrip(s))

\* The number written by a sequence of digit values.
RECURSIVE DigitsValue(_)
DigitsValue(s) == IF s = <<>> THEN 0
                  ELSE 10 * DigitsValue(SubSeq(s, 1, Len(s) - 1)) + s[Len(s)]

\* int() refuses a numeral of more digits than sys.int_max_str_digits.
MaxStrDigits == 4300

\* An int() numeral: decimal digits, with single underscores allowed between
\* them, and no more than MaxStrDigits digits.
AllDigits(s) ==
    /\ s # <<>>
    /\ \A i \in 1..Len(s) : s[i] \in Digits \cup {Underscore}
    /\ s[1] # Underscore /\ s[Len(s)] # Underscore
    /\ \A i \in 1..(Len(s) - 1) : ~(s[i] = Underscore /\ s[i + 1] = Underscore)
    /\ Cardinality({ i \in 1..Len(s) : s[i] \in Digits }) <= MaxStrDigits

\* The digit values of a numeral, underscores left out.
OnlyDigits(s) ==
    LET d == SelectSeq(s, LAMBDA c : c # Underscore)
    IN  [i \in 1..Len(d) |-> DigitVal(d[i])]

DropLeadingZeros(s) ==
    IF \A i \in 1..Len(s) : s[i] = 0 THEN <<>>
    ELSE LET first == CHOOSE i \in 1..Len(s) :
                          s[i] # 0 /\ \A j \in 1..(i - 1) : s[j] = 0
         IN  SubSeq(s, first, Len(s))

\* A Python int: unbounded, kept as a sign and the digit values of its
\* magnitude (no leading zero; zero has no digit).
PyInt(neg, mag) == [ok |-> TRUE, neg |-> neg /\ mag # <<>>, mag |-> mag]
NotAnInt == [ok |-> FALSE, neg |-> FALSE, mag |-> <<>>]

\* int(text): surrounding whitespace ignored, optional sign, then digits;
\* anything else raises ValueError (ok = FALSE).
int(s) ==
    LET t == RStrip(LStrip(s, IntWS), IntWS)
        signed == t # <<>> /\ t[1] \in {PlusSign, MinusSign}
        body == IF signed THEN SubSeq(t, 2, Len(t)) ELSE t
    IN  IF AllDigits(body)
        THEN PyInt(signed /\ t[1] = MinusSign, DropLeadingZeros(OnlyDigits(body)))
        ELSE NotAnInt

\* The number a Python int stands for.  A magnitude of ten digits or more is
\* kept as 10^9: LIMIT and OFFSET cannot tell the two apart on a table of at
\* most MaxRecords rows.
Saturated == 1000000000

Value(n) ==
    LET m == IF Len(n.mag) > 9 THEN Saturated ELSE DigitsValue(n.mag)
    IN  IF n.neg THEN 0 - m ELSE m

\* 2^63, one more than the largest INTEGER SQLite stores.
TwoTo63 == << 9, 2, 2, 3, 3, 7, 2, 0, 3, 6, 8, 5, 4, 7, 7, 5, 8, 0, 8 >>

\* a < b for sequences of digit values of one length.
DigitsLess(a, b) ==
    \E i \in 1..Len(a) :
        /\ a[i] < b[i]
        /\ \A j \in 1..(i - 1) : a[j] = b[j]

MagLess(a, b) ==
    Len(a) < Len(b) \/ (Len(a) = Len(b) /\ DigitsLess(a, b))

\* sqlite3 binds a Python int as a 64-bit INTEGER and raises OverflowError
\* for any other: -2^63 <= n < 2^63.
FitsSqliteInteger(n) ==
    MagLess(n.mag, TwoTo63) \/ (n.neg /\ n.mag = TwoTo63)

(* --------------------------- request inputs --------------------------- *)
\* JSON bodies of POST /generate, as request.get_json(force=True) sees them:
\* not JSON at all, JSON that is no object, an object without "prompt", an
\* object whose "prompt" is no string, an object with a text prompt.
\* The text: space, vertical tab, "a b", no-break space, file separator,
\* line feed.
PromptTexts == { <<32, 11, 97, 32, 98, 160, 28, 10>> }

Bodies ==
    { [kind |-> "malformed", hasPrompt |-> FALSE, isStr |-> FALSE, prompt |-> <<>>],
      [kind |-> "array",     hasPrompt |-> FALSE, isStr |-> FALSE, prompt |-> <<>>],
      [kind |-> "object",    hasPrompt |-> FALSE, isStr |-> FALSE, prompt |-> <<>>],
      [kind |-> "object",    hasPrompt |-> TRUE,  isStr |-> FALSE, prompt |-> <<>>] }
    \cup { [kind |-> "object", hasPrompt |-> TRUE, isStr |-> TRUE, prompt |-> p] :
             p \in PromptTexts }

\* Texts tokenizer.decode() may hand back for the generated tokens: line
\* feed, "y", next line (U+0085), em space.
DecodedTexts == { <<10, 121, 133, 8195>> }

\* Query strings of GET /history: request.args maps some of the two parameter
\* names to text.
Args(l, o) == [limit |-> l, offset |-> o]
OnlyLimit(l) == [limit |-> l]
OnlyOffset(o) == [offset |-> o]

\* "2"; vertical tab "2" and "+" Arabic-Indic one; "5" and "0_" fullwidth
\* five; "-1" either way; "abc"; file separator "2"; 10^19; 4301 nines; "1.5";
\* the empty text.
QueryArgs ==
    { OnlyLimit(<<50>>),
      Args(<<11, 50>>, <<43, 1633>>),
      Args(<<53>>, <<48, 95, 65301>>),
      OnlyLimit(<<45, 49>>),
      OnlyOffset(<<45, 49>>),
      OnlyLimit(<<97, 98, 99>>),
      OnlyLimit(<<28, 50>>),
      OnlyLimit(<<49>> \o [i \in 1..19 |-> 48]),
      OnlyLimit([i \in 1..(MaxStrDigits + 1) |-> 57]),
      Args(<<50>>, <<49, 46, 53>>),
      OnlyOffset(<<>>) }

DefaultLimit  == 5
DefaultOffset == 0

\* The int object request.args.get hands to int() when the parameter is absent.
RECURSIVE DigitsOf(_)
DigitsOf(v) ==
    IF v = 0 THEN <<>> ELSE DigitsOf(v \div 10) \o <<v % 10>>

IntObject(v) == PyInt(FALSE, DigitsOf(v))

\* limit = int(request.args.get("limit", 5)); offset = int(request.args.get(
\* "offset", 0)): the two Python ints, or the ValueError.
ParseArgs(args) ==
    [limit  |-> IF "limit" \in DOMAIN args THEN int(args["limit"])
                ELSE IntObject(DefaultLimit),
     offset |-> IF "offset" \in DOMAIN args THEN int(args["offset"])
                ELSE IntObject(DefaultOffset)]

\* What the query strings of QueryArgs parse to.
ParsedQueryArgs == { ParseArgs(args) : args \in QueryArgs }

(* ------------------------------ the store ----------------------------- *)
RECURSIVE MaxId(_)
MaxId(rows) == IF rows = <<>> THEN 0
               ELSE LET m == MaxId(Tail(rows))
                    IN  IF Head(rows).id > m THEN Head(rows).id ELSE m

\* Variant that hands out the largest id again.
NextRowIdReused(rows) == IF rows = <<>> THEN 1 ELSE MaxId(rows)

\* INTEGER PRIMARY KEY AUTOINCREMENT: one more than the largest id ever used
\* (rows are never deleted, so that is the largest id in the table).
NextRowId(rows) == MaxId(rows) + 1

\* INSERT INTO conversations (prompt, response) VALUES (?, ?): id and
\* created_at are filled in by the table's defaults.
NewRow(rows, now, prompt, response) ==
    [id |-> NextRowId(rows), prompt |-> prompt, response |-> response,
     created_at |-> now]

\* Variant of the ORDER BY whose tie-break is ascending.
SortsBeforeTieAsc(x, y) ==
    \/ x.created_at > y.created_at
    \/ x.created_at = y.created_at /\ x.id < y.id

\* ORDER BY datetime(created_at) DESC, id DESC
SortsBefore(x, y) ==
    \/ x.created_at > y.created_at
    \/ x.created_at = y.created_at /\ x.id > y.id

RECURSIVE OrderRows(_)
OrderRows(S) ==
    IF S = {} THEN <<>>
    ELSE LET first == CHOOSE x \in S : \A y \in S \ {x} : SortsBefore(x, y)
         IN  <<first>> \o OrderRows(S \ {first})

RowSet(rows) == { rows[i] : i \in 1..Len(rows) }

\* LIMIT ? OFFSET ? as SQLite evaluates it: a negative LIMIT means no upper
\* bound, a negative OFFSET counts as zero.
LimitOffset(ordered, limit, offset) ==
    LET n   == Len(ordered)
        off == IF offset < 0 THEN 0 ELSE offset
        lim == IF limit < 0 THEN n ELSE limit
        last == IF off + lim > n THEN n ELSE off + lim
    IN  SubSeq(ordered, off + 1, last)

\* The SELECT of /history.
SelectRecent(rows, limit, offset) ==
    LimitOffset(OrderRows(RowSet(rows)), limit, offset)

\* Variant of the schema statement without IF NOT EXISTS.
CreateTable(exists, rows) ==
    IF exists THEN [ok |-> FALSE, exists |-> exists, rows |-> rows]
    ELSE [ok |-> TRUE, exists |-> TRUE, rows |-> <<>>]

\* CREATE TABLE IF NOT EXISTS conversations (...)
CreateTableIfNotExists(exists, rows) ==
    IF exists THEN [ok |-> TRUE, exists |-> TRUE, rows |-> rows]
    ELSE [ok |-> TRUE, exists |-> TRUE, rows |-> <<>>]

(* ---------------------- request-scoped connection --------------------- *)
\* Variant in which flask.g were one object shared by all requests.
GKeyShared(r) == 1

\* flask.g belongs to the application context of the request being handled:
\* each request in flight reads and writes its own "_db" attribute.
GKey(r) == r

\* A worker with no request: every local of the view functions is unset.
IdleRequest ==
    [pc |-> "idle", route |-> "none", raw |-> <<>>, prompt |-> <<>>,
     reply |-> <<>>, limit |-> 0, offset |-> 0, rows |-> <<>>, seen |-> 0,
     status |-> 0, sent |-> <<>>, appended |-> 0, rowId |-> 0, oracle |-> "no",
     queried |-> FALSE, invalid |-> FALSE, fits |-> TRUE, opened |-> 0,
     db |-> NoConn]

ConnIds == { k.id : k \in conns }

\* sqlite3.connect(DB_PATH) yields a connection object no one else holds.
FreshConn == CHOOSE c \in 1..(Cardinality(conns) + 1) : c \notin ConnIds

\* The connection get_db() returns to request r: the one cached on g, or a
\* freshly opened one.
get_db_conn(r) ==
    IF g[GKey(r)] = NoConn THEN FreshConn ELSE g[GKey(r)]

\* get_db(): open a connection unless g already holds one, and cache it.
get_db(r) ==
    /\ conns' = IF g[GKey(r)] = NoConn
                THEN conns \cup {[id |-> FreshConn, owner |-> r]}
                ELSE conns
    /\ g' = [g EXCEPT ![GKey(r)] = get_db_conn(r)]

\* Whether this get_db() call of request r opens a connection.
OpenedNow(r) == IF g[GKey(r)] = NoConn THEN 1 ELSE 0

(* ------------------------------- state -------------------------------- *)
Init ==
    /\ tableExists = FALSE
    /\ store = <<>>
    /\ clock = 0
    /\ writer = NoConn
    /\ pending = <<>>
    /\ lockLevel = "unlocked"
    /\ conns = {}
    /\ g = [k \in Slots |-> NoConn]
    /\ req = [r \in Slots |-> IdleRequest]
    /\ phase = "boot"

\* Requests are served once the module is imported and app.run() is reached.
Serving == phase = "serving"

(* ------------------------------ startup ------------------------------- *)
\* init_db(): runs at the import of the module, on a connection of its own;
\* an exception ends the process.
init_db ==
    /\ phase = "boot"
    /\ LET res == CreateTableIfNotExists(tableExists, store)
       IN  /\ phase' = IF res.ok THEN "booted" ELSE "crashed"
           /\ tableExists' = res.exists
           /\ store' = res.rows
    /\ UNCHANGED <<clock, writer, pending, lockLevel, conns, g, req>>

\* The model is loaded and app.run() starts to accept requests.
Serve ==
    /\ phase = "booted"
    /\ phase' = "serving"
    /\ UNCHANGED <<tableExists, store, clock, writer, pending, lockLevel,
                   conns, g, req>>

\* The process stops, at any point of the requests in flight, and is started
\* again (app.run with debug=True reloads it).  Its connections and contexts
\* are gone with it; conversations.db stays on disk, and the row of a
\* transaction that was not committed is rolled back from the journal.
Restart ==
    /\ phase \in {"booted", "serving"}
    /\ phase' = "boot"
    /\ req' = [r \in Slots |-> IdleRequest]
    /\ conns' = {}
    /\ g' = [k \in Slots |-> NoConn]
    /\ writer' = NoConn
    /\ pending' = <<>>
    /\ lockLevel' = "unlocked"
    /\ UNCHANGED <<tableExists, store, clock>>

(* ------------------------------ the clock ----------------------------- *)
\* CURRENT_TIMESTAMP is the machine's wall clock: it moves on ...
ClockTick ==
    /\ clock < MaxClock
    /\ clock' = clock + 1
    /\ UNCHANGED <<tableExists, store, writer, pending, lockLevel, conns, g,
                   req, phase>>

\* ... and can be set back (time synchronisation, an operator).
ClockStepBack ==
    /\ clock > 0
    /\ clock' = clock - 1
    /\ UNCHANGED <<tableExists, store, writer, pending, lockLevel, conns, g,
                   req, phase>>

(* --------------------------- POST /generate --------------------------- *)
\* Variant that swallows a generation error and carries on with empty text.
OracleRaisedSwallowed(q) ==
    [q EXCEPT !.pc = "persist", !.oracle = "failed", !.reply = <<>>]

\* apply_chat_template / tokenizer / model.generate / decode raises: the
\* exception leaves the view function and the request is answered with 500.
OracleRaised(q) ==
    [q EXCEPT !.pc = "teardown", !.status = 500, !.oracle = "failed"]

\* reply = tokenizer.decode(...).strip()
OracleReturned(q, text) ==
    [q EXCEPT !.pc = "persist", !.oracle = "ok", !.reply = strip(text)]

\* request.get_json(force=True) raises BadRequest on a body that is not JSON.
JsonBodyRejected(q) ==
    [q EXCEPT !.pc = "teardown", !.status = 400, !.invalid = TRUE]

\* generate(), up to the reply: data = request.get_json(force=True);
\* prompt = data.get("prompt", "").strip(); then the model is run on prompt.
Generate(r) ==
    /\ Serving
    /\ req[r].pc \in {"idle", "done"}
    /\ \E body \in Bodies :
         LET new == [IdleRequest EXCEPT !.route = "generate"]
             raw == IF body.hasPrompt THEN body.prompt ELSE <<>>
             q   == [new EXCEPT !.raw = raw, !.prompt = strip(raw)]
         IN  \/ /\ body.kind = "malformed"
                /\ req' = [req EXCEPT ![r] = JsonBodyRejected(new)]
             \/ /\ body.kind = "array" \/ (body.hasPrompt /\ ~body.isStr)
                /\ req' = [req EXCEPT ![r] =
                     [new EXCEPT !.pc = "teardown", !.status = 500]]
             \/ /\ body.kind = "object" /\ (body.hasPrompt => body.isStr)
                /\ \/ req' = [req EXCEPT ![r] = OracleRaised(q)]
                   \/ \E text \in DecodedTexts :
                        req' = [req EXCEPT ![r] = OracleReturned(q, text)]
    /\ UNCHANGED <<tableExists, store, clock, writer, pending, lockLevel,
                   conns, g, phase>>

\* db = get_db(): the connection is opened and cached on g.
GenerateGetDb(r) ==
    /\ req[r].pc = "persist"
    /\ get_db(r)
    /\ req' = [req EXCEPT ![r] = [@ EXCEPT !.pc = "insert",
                                           !.db = get_db_conn(r),
                                           !.opened = @ + OpenedNow(r)]]
    /\ UNCHANGED <<tableExists, store, clock, writer, pending, lockLevel,
                   phase>>

\* db.execute("INSERT ..."): the statement waits while another connection
\* holds the database's write lock, then takes it; the row waits in the
\* connection's open transaction.
GenerateExecute(r) ==
    /\ req[r].pc = "insert"
    /\ tableExists
    /\ writer = NoConn
    /\ Len(store) < MaxRecords
    /\ writer' = req[r].db
    /\ lockLevel' = "reserved"
    /\ pending' = <<NewRow(store, clock, req[r].prompt, req[r].reply)>>
    /\ req' = [req EXCEPT ![r] = [@ EXCEPT !.pc = "commit"]]
    /\ UNCHANGED <<tableExists, store, clock, conns, g, phase>>

\* db.commit(); return jsonify({"reply": reply})
GenerateCommit(r) ==
    /\ req[r].pc = "commit"
    /\ writer = req[r].db /\ pending # <<>>
    /\ store' = store \o pending
    /\ writer' = NoConn
    /\ lockLevel' = "unlocked"
    /\ pending' = <<>>
    /\ req' = [req EXCEPT ![r] = [@ EXCEPT !.pc = "teardown", !.status = 200,
                                           !.sent = req[r].reply,
                                           !.appended = @ + 1,
                                           !.rowId = pending[1].id]]
    /\ UNCHANGED <<tableExists, clock, conns, g, phase>>

\* db.execute raises, for instance "database is locked" when the wait for the
\* write lock times out: no row was inserted.
GenerateExecuteFail(r) ==
    /\ req[r].pc = "insert"
    /\ req' = [req EXCEPT ![r] =
         [IdleRequest EXCEPT !.pc = "teardown", !.route = "generate",
                             !.status = 500, !.oracle = req[r].oracle,
                             !.db = req[r].db, !.opened = req[r].opened]]
    /\ UNCHANGED <<tableExists, store, clock, writer, pending, lockLevel,
                   conns, g, phase>>

\* db.commit() raises.  Either SQLite has rolled the transaction back itself
\* (disk full, I/O error), or the commit was refused as busy and the
\* connection keeps its lock, now pending, and its row until close_db rolls
\* it back.
GenerateCommitFail(r) ==
    /\ req[r].pc = "commit"
    /\ req' = [req EXCEPT ![r] =
         [IdleRequest EXCEPT !.pc = "teardown", !.route = "generate",
                             !.status = 500, !.oracle = req[r].oracle,
                             !.db = req[r].db, !.opened = req[r].opened]]
    /\ \/ /\ writer' = NoConn
          /\ pending' = <<>>
          /\ lockLevel' = "unlocked"
       \/ /\ lockLevel' = "pending"
          /\ UNCHANGED <<writer, pending>>
    /\ UNCHANGED <<tableExists, store, clock, conns, g, phase>>

(* ---------------------------- GET /history ---------------------------- *)
\* Variant that forgets the status code of the error answer.
HistoryArgsRejectedAs200(q) ==
    [q EXCEPT !.pc = "teardown", !.status = 200, !.invalid = TRUE]

\* except (TypeError, ValueError): return jsonify({"error": ...}), 400
HistoryArgsRejected(q) ==
    [q EXCEPT !.pc = "teardown", !.status = 400, !.invalid = TRUE]

\* history(), up to the query: limit = int(request.args.get("limit", 5));
\* offset likewise; a ValueError is answered with 400; otherwise
\* db = get_db() opens the connection and caches it on g.
History(r) ==
    /\ Serving
    /\ req[r].pc \in {"idle", "done"}
    /\ \E parsed \in ParsedQueryArgs :
         LET new    == [IdleRequest EXCEPT !.route = "history"]
             limit  == parsed.limit
             offset == parsed.offset
         IN  \/ /\ ~(limit.ok /\ offset.ok)
                /\ req' = [req EXCEPT ![r] = HistoryArgsRejected(new)]
                /\ UNCHANGED <<conns, g>>
             \/ /\ limit.ok /\ offset.ok
                /\ get_db(r)
                /\ req' = [req EXCEPT ![r] =
                     [new EXCEPT !.pc = "select",
                                 !.limit = Value(limit), !.offset = Value(offset),
                                 !.fits = FitsSqliteInteger(limit)
                                          /\ FitsSqliteInteger(offset),
                                 !.db = get_db_conn(r),
                                 !.opened = OpenedNow(r)]]
    /\ UNCHANGED <<tableExists, store, clock, writer, pending, lockLevel,
                   phase>>

\* rows = db.execute("SELECT ... LIMIT ? OFFSET ?", (limit, offset)).fetchall()
\* and the answer.  The statement waits while another connection holds a
\* pending lock.  Then a parameter that does not fit an SQLite INTEGER makes
\* db.execute raise OverflowError, which nothing catches: the answer is 500.
\* Otherwise the committed rows are read: a row another connection has not
\* committed is not seen.
HistoryExecute(r) ==
    /\ req[r].pc = "select"
    /\ tableExists
    /\ lockLevel # "pending"
    /\ IF ~req[r].fits
       THEN req' = [req EXCEPT ![r] =
                [@ EXCEPT !.pc = "teardown", !.status = 500]]
       ELSE req' = [req EXCEPT ![r] =
                [@ EXCEPT !.pc = "teardown", !.status = 200,
                          !.queried = TRUE,
                          !.seen = Len(store),
                          !.rows = SelectRecent(store, req[r].limit,
                                                req[r].offset)]]
    /\ UNCHANGED <<tableExists, store, clock, writer, pending, lockLevel,
                   conns, g, phase>>

\* db.execute raises, for instance "database is locked" when the wait for a
\* pending lock times out: no row was read.
HistoryExecuteFail(r) ==
    /\ req[r].pc = "select"
    /\ req' = [req EXCEPT ![r] =
         [IdleRequest EXCEPT !.pc = "teardown", !.route = "history",
                             !.status = 500, !.db = req[r].db,
                             !.opened = req[r].opened]]
    /\ UNCHANGED <<tableExists, store, clock, writer, pending, lockLevel,
                   conns, g, phase>>

(* ------------------------------ teardown ------------------------------ *)
\* What is left of a request once its context is gone.
Ended(q) ==
    [IdleRequest EXCEPT !.pc = "done", !.status = q.status, !.opened = q.opened]

\* Variant that only forgets the connection and never closes it.
close_db_forgets(r) ==
    /\ req[r].pc = "teardown"
    /\ g' = [g EXCEPT ![GKey(r)] = NoConn]
    /\ req' = [req EXCEPT ![r] = Ended(req[r])]
    /\ UNCHANGED <<tableExists, store, clock, writer, pending, lockLevel,
                   conns, phase>>

\* close_db(exception): db = g.pop("_db", None); if db is not None: db.close().
\* Closing a connection rolls back the transaction it left open and gives up
\* its lock.
close_db(r) ==
    /\ req[r].pc = "teardown"
    /\ LET db == g[GKey(r)]
       IN  /\ g' = [g EXCEPT ![GKey(r)] = NoConn]
           /\ conns' = { k \in conns : k.id # db }
           /\ IF db # NoConn /\ writer = db
              THEN writer' = NoConn /\ pending' = <<>>
                   /\ lockLevel' = "unlocked"
              ELSE UNCHANGED <<writer, pending, lockLevel>>
    /\ req' = [req EXCEPT ![r] = Ended(req[r])]
    /\ UNCHANGED <<tableExists, store, clock, phase>>

(* --------------------------- specification ---------------------------- *)
Next ==
    \/ init_db
    \/ Serve
    \/ Restart
    \/ ClockTick
    \/ ClockStepBack
    \/ \E r \in Slots :
         \/ Generate(r)
         \/ GenerateGetDb(r)
         \/ GenerateExecute(r)
         \/ GenerateCommit(r)
         \/ GenerateExecuteFail(r)
         \/ GenerateCommitFail(r)
         \/ History(r)
         \/ HistoryExecute(r)
         \/ HistoryExecuteFail(r)
         \/ close_db(r)

Spec == Init /\ [][Next]_vars

(* ------------------------------ properties ---------------------------- *)
Min(a, b) == IF a < b THEN a ELSE b
Max(a, b) == IF a > b THEN a ELSE b

\* t is s without its leading and trailing whitespace.
IsTrimOf(t, s) ==
    \E i \in 1..(Len(s) + 1) : \E j \in 0..Len(s) :
        /\ t = SubSeq(s, i, j)
        /\ \A k \in 1..(i - 1) : s[k] \in WS
        /\ \A k \in (j + 1)..Len(s) : s[k] \in WS
        /\ t # <<>> => (t[1] \notin WS /\ t[Len(t)] \notin WS)

\* Request r is answered 200 by /generate in this step.
GenerateSucceeds(r) ==
    /\ req[r].status # 200
    /\ req'[r].route = "generate" /\ req'[r].status = 200

C1_Step ==
    /\ \A r \in Slots : GenerateSucceeds(r) =>
         /\ Len(store') = Len(store) + 1
         /\ SubSeq(store', 1, Len(store)) = store
         /\ IsTrimOf(store'[Len(store')].prompt, req'[r].raw)
         /\ store'[Len(store')].response = req'[r].sent
         /\ req'[r].sent = req[r].reply
         /\ req[r].oracle = "ok"
         /\ req'[r].appended = 1
    /\ Len(store') # Len(store) =>
         Cardinality({ r \in Slots : GenerateSucceeds(r) }) = 1

\* C1: the step that answers a /generate request with 200 appends exactly one
\* row to the table (count before plus one); the row's prompt is the request's
\* prompt with leading and trailing whitespace removed and its response is the
\* reply the oracle returned, the text sent back; no other step adds a row.
C1_GenerateAppendsOneRecord == [][C1_Step]_vars

C1_Witness ==
    \E r \in Slots :
        /\ req[r].route = "generate" /\ req[r].status = 200
        /\ req[r].raw = <<32, 11, 97, 32, 98, 160, 28, 10>>
        /\ Len(store) = 2
        /\ store[2].id = req[r].rowId
        /\ store[2].prompt = <<97, 32, 98>> /\ store[2].response = <<121>>

\* C2: a /generate request whose oracle call failed is answered with an error
\* status, has appended no row, holds no uncommitted row and has not opened a
\* connection.
C2_OracleFailurePersistsNothing ==
    \A r \in Slots : req[r].oracle = "failed" =>
        /\ req[r].pc = "teardown" /\ req[r].status = 500
        /\ req[r].appended = 0
        /\ req[r].opened = 0 /\ req[r].db = NoConn
        /\ \A k \in conns : k.owner # r

C2_Witness ==
    \E r \in Slots :
        /\ req[r].oracle = "failed" /\ req[r].pc = "teardown"
        /\ Len(store) = 2

\* Position of a returned row in the table, that is, its insertion rank.
InsertPos(row) == CHOOSE i \in 1..Len(store) : store[i].id = row.id

Answered(r) == req[r].queried /\ req[r].pc = "teardown"

\* C3 as stated: of two rows in a /history answer, the one inserted later
\* comes first; three rows R1, R2, R3 and limit=2, offset=0 give [R3, R2].
C3_NewestInsertedFirst ==
    \A r \in Slots : Answered(r) =>
        /\ \A i, j \in 1..Len(req[r].rows) :
             i < j => InsertPos(req[r].rows[i]) > InsertPos(req[r].rows[j])
        /\ (req[r].limit = 2 /\ req[r].offset = 0 /\ req[r].seen = 3) =>
             req[r].rows = <<store[3], store[2]>>

\* C3 amended: of two rows in a /history answer, the one with the later
\* created_at comes first and, at equal created_at, the one inserted later; so
\* a row inserted earlier never precedes a row inserted later unless its
\* created_at is the greater one.  With created_at non-decreasing over R1, R2,
\* R3, limit=2 and offset=0 give [R3, R2].
C3_NewestFirstByTimestampThenInsertion ==
    \A r \in Slots : Answered(r) =>
        /\ \A i, j \in 1..Len(req[r].rows) :
             i < j =>
               LET x == req[r].rows[i]
                   y == req[r].rows[j]
               IN  \/ x.created_at > y.created_at
                   \/ x.created_at = y.created_at /\ InsertPos(x) > InsertPos(y)
        /\ ( /\ req[r].limit = 2 /\ req[r].offset = 0 /\ req[r].seen = 3
             /\ store[1].created_at <= store[2].created_at
             /\ store[2].created_at <= store[3].created_at ) =>
             req[r].rows = <<store[3], store[2]>>

C3_Witness ==
    \E r \in Slots :
        /\ Answered(r)
        /\ req[r].limit = 2 /\ req[r].offset = 0 /\ req[r].seen = 3
        /\ store[1].created_at = store[2].created_at
        /\ store[2].created_at < store[3].created_at
        /\ req[r].rows = <<store[3], store[2]>>

\* y comes before x in the newest-first order of the table.
Newer(y, x) ==
    \/ y.created_at > x.created_at
    \/ y.created_at = x.created_at /\ y.id > x.id

\* The rows the table held when request r ran its SELECT.
SeenRows(r) == { store[i] : i \in 1..req[r].seen }

\* db.execute of request r has run its statement with (limit, offset): the
\* request was not rejected and the store did not fail.
Executed(r) ==
    /\ req[r].route = "history" /\ req[r].pc = "teardown"
    /\ req[r].queried \/ ~req[r].fits

\* The rows of r's answer are the window of the newest-first order, from
\* offset on and limit long at most, of the N rows the table held.
Window(r) ==
    /\ Len(req[r].rows) =
         Min(req[r].limit, Max(0, req[r].seen - req[r].offset))
    /\ \A i \in 1..Len(req[r].rows) :
         /\ req[r].rows[i] \in SeenRows(r)
         /\ Cardinality({ y \in SeenRows(r) : Newer(y, req[r].rows[i]) })
              = req[r].offset + i - 1

\* C4 as stated: every /history request with limit >= 0 and offset >= 0 whose
\* query was run returns a sequence, of min(limit, max(0, N - offset)) rows
\* over a table of N rows, whose i-th row has exactly offset + i - 1 rows
\* before it in the newest-first order.
C4_NonNegativeRequestReturnsWindow ==
    \A r \in Slots :
        (Executed(r) /\ req[r].limit >= 0 /\ req[r].offset >= 0) =>
            /\ Answered(r) /\ req[r].status = 200
            /\ Window(r)

\* C5: the SELECT of /history never runs with a negative limit or a negative
\* offset.
C5_NegativeNeverReachesStore ==
    \A r \in Slots : req[r].queried => (req[r].limit >= 0 /\ req[r].offset >= 0)

\* C6: a request that failed input validation is answered 400 and has neither
\* run the oracle nor opened, cached or queried a connection.
C6_InvalidInputTouchesNothing ==
    \A r \in Slots : req[r].invalid =>
        /\ req[r].status = 400
        /\ req[r].oracle = "no"
        /\ req[r].opened = 0 /\ req[r].db = NoConn /\ g[r] = NoConn
        /\ ~req[r].queried /\ req[r].appended = 0
        /\ \A k \in conns : k.owner # r

C6_Witness ==
    /\ \E r \in Slots : req[r].invalid /\ req[r].route = "history"
    /\ \E r \in Slots : req[r].invalid /\ req[r].route = "generate"
    /\ Len(store) = 1

\* C7: a worker whose request has ended (or that has none) has no open
\* connection and nothing cached on g, whatever way the request ended; the
\* write lock is never left with a closed connection.
C7_ConnectionClosedAtRequestEnd ==
    /\ \A r \in Slots : req[r].pc \in {"idle", "done"} =>
          /\ g[r] = NoConn
          /\ \A k \in conns : k.owner # r
    /\ writer = NoConn \/ \E k \in conns : k.id = writer

C7_Witness ==
    /\ \E r \in Slots :
         req[r].pc = "done" /\ req[r].status = 500 /\ req[r].opened = 1
    /\ \E r \in Slots :
         req[r].pc = "done" /\ req[r].status = 200 /\ req[r].opened = 1

\* C8: a request has at most one connection open, opens at most one, and the
\* connection it works with is open, was opened by itself and is the one
\* cached on its g; no two requests work with the same connection.
C8_OneOwnConnectionPerRequest ==
    /\ \A k1, k2 \in conns : k1.id = k2.id => k1 = k2
    /\ \A r \in Slots :
         /\ Cardinality({ k \in conns : k.owner = r }) <= 1
         /\ req[r].opened <= 1
         /\ req[r].db # NoConn =>
              /\ [id |-> req[r].db, owner |-> r] \in conns
              /\ g[r] = req[r].db
    /\ \A r1, r2 \in Slots :
         (r1 # r2 /\ req[r1].db # NoConn) => req[r1].db # req[r2].db

C8_Witness ==
    /\ \A r \in Slots : req[r].db # NoConn /\ req[r].pc = "teardown"
    /\ Cardinality(conns) = NumSlots

C9_Ids ==
    \A i, j \in 1..Len(store) : i < j => store[i].id < store[j].id

C9_Step ==
    /\ Len(store') >= Len(store)
    /\ SubSeq(store', 1, Len(store)) = store
    /\ \A i \in (Len(store) + 1)..Len(store') : store'[i].id > MaxId(store)

\* C9: row ids are distinct and increase in insertion order, and every step
\* keeps the rows already stored, unchanged and in place, adding only rows
\* whose id is greater than every id stored before.
C9_AppendOnlyIncreasingIds == []C9_Ids /\ [][C9_Step]_vars

C9_Witness ==
    /\ Len(store) = 3
    /\ \E r \in Slots : req[r].queried
    /\ <<store[1].id, store[2].id, store[3].id>> = <<1, 2, 3>>

C10_Step ==
    init_db =>
        /\ phase' = "booted"
        /\ tableExists'
        /\ store' = IF tableExists THEN store ELSE <<>>

\* C10: every execution of init_db succeeds, leaves the table existing and
\* keeps the rows exactly as they were (none when the table was absent).
C10_InitDbIdempotent == [][C10_Step]_vars

C10_Witness ==
    /\ phase = "booted" /\ tableExists
    /\ Len(store) = 3

====
